---------------------------- MODULE Spec2Model ----------------------------
(***************************************************************************)
(* A model of the WhatsApp Web client of x-cortex/x-whatsapp:              *)
(*   src/x_whatsapp/__init__.py  (the packaged client)                     *)
(*   src/src/__init__.py         (the earlier client, same row parser)     *)
(*   src/src/newFile.py          (the first client, flat row parser)       *)
(*                                                                         *)
(* Text is a sequence of tokens.  A token is one of the characters the     *)
(* code's regular expression and strip() look at ("[", "]", " ", ":",      *)
(* "\n") or a word: a maximal run of other characters ("Bob", "10").       *)
(* Two texts are the same Python string iff they are the same sequence.    *)
(***************************************************************************)
EXTENDS Naturals, Integers, Sequences, FiniteSets, TLC

VARIABLES
    row,        \* extract_basic_info: the row handed to the parser
    ret,        \* what the finished call returned
    pc,         \* position of the operation under way
    op,         \* the operation under way and its arguments
    page,       \* the live page: conversations, open panel, focus, input fields
    rows,       \* extract_messages / parse_whatsapp_messages: the rows queried
    task,       \* extract_messages: the state of each process_row task
    finished,   \* extract_messages: the tasks in the order they completed
    messages,   \* the list the row loop builds
    locals,     \* parse_whatsapp_messages: idx, time_sent, message_text
    raisedRows, \* indices of the rows whose parse raised (history of the run)
    log,        \* the calls completed so far, with what each returned
    children,   \* the list items of the sidebar chat list, in DOM order
    all_chats   \* extract_chat_details_from_side_pane: the list it builds

vars ==
    <<row, ret, pc, op, page, rows, task, finished, messages, locals,
      raisedRows, log, children, all_chats>>

-----------------------------------------------------------------------------
(* Text helpers: str.strip() and re.match of the prefix pattern.           *)

IsSpace(t) == t \in {" ", "\n"}

\* str.strip(): drop leading and trailing whitespace.
Strip(s) ==
    LET idx == {i \in 1..Len(s) : ~IsSpace(s[i])}
    IN  IF idx = {} THEN <<>>
        ELSE LET lo == CHOOSE i \in idx : \A j \in idx : i <= j
                 hi == CHOOSE i \in idx : \A j \in idx : j <= i
             IN  SubSeq(s, lo, hi)

\* "." of the pattern: any character but a newline.
AllDot(s, lo, hi) == \A k \in lo..hi : s[k] # "\n"

AllSpace(s, lo, hi) == \A k \in lo..hi : IsSpace(s[k])

\* The splits (i, j) of s accepted by  \[(.*?)\] (.*?):\s*$  anchored at the
\* start: s[1] = "[", s[i] = "]", s[i+1] = " ", s[j] = ":", group 1 is
\* s[2..i-1], group 2 is s[i+2..j-1], and only whitespace follows s[j].
PrefixSplits(s) ==
    {p \in (1..Len(s)) \X (1..Len(s)) :
        /\ Len(s) >= 1 /\ s[1] = "["
        /\ p[1] >= 2 /\ s[p[1]] = "]"
        /\ p[1] + 1 <= Len(s) /\ s[p[1] + 1] = " "
        /\ p[2] >= p[1] + 2 /\ s[p[2]] = ":"
        /\ AllDot(s, 2, p[1] - 1)
        /\ AllDot(s, p[1] + 2, p[2] - 1)
        /\ AllSpace(s, p[2] + 1, Len(s))}

\* re.match(pattern, s): both groups are lazy, so the backtracking matcher
\* returns the accepted split with the shortest group 1 and, for it, the
\* shortest group 2.
PrefixMatch(s) ==
    LET ps == PrefixSplits(s)
    IN  IF ps = {} THEN [matched |-> FALSE, g1 |-> <<>>, g2 |-> <<>>]
        ELSE LET p == CHOOSE q \in ps :
                        \A r \in ps : q[1] < r[1] \/ (q[1] = r[1] /\ q[2] <= r[2])
             IN  [matched |-> TRUE,
                  g1 |-> SubSeq(s, 2, p[1] - 1),
                  g2 |-> SubSeq(s, p[1] + 2, p[2] - 1)]

-----------------------------------------------------------------------------
(* A row of the message panel, as the selectors of the parsers see it.     *)
(* A sub-node is a record with a "present" flag: query_selector returns    *)
(* None for an absent node.                                                *)

NoNode == [present |-> FALSE, text |-> <<>>]
Node(t) == [present |-> TRUE, text |-> t]

\* div._amk6._amlo div.copyable-text and its data-pre-plain-text attribute
\* (get_attribute returns None when the node does not carry it).
NoTemp == [present |-> FALSE, hasAttr |-> FALSE, attr |-> <<>>]
TempNoAttr == [present |-> TRUE, hasAttr |-> FALSE, attr |-> <<>>]
Temp(a) == [present |-> TRUE, hasAttr |-> TRUE, attr |-> a]

\* Texts the sample rows carry.
Unknown == <<"unknown">>
You == <<"You">>
Sender == <<"Sender">>
Hello == <<"hello">>
Bob == <<"Bob">>

PrefixBob == <<"[", "10", ":", "00", "]", " ", "Bob", ":", " ">>
PrefixNoBracket == <<"Bob", ":", " ">>

\* data-pre-plain-text samples: the usual prefix, one padded with spaces and
\* ended by a newline, a sender "unknown", an empty sender, a sender with a
\* colon in it, no bracket, and text after the colon.
PrefixSamples ==
    {PrefixBob,
     <<"[", " ", "10", ":", "00", "]", " ", " ", "Bob", ":", " ", "\n">>,
     <<"[", "10", ":", "00", "]", " ", "unknown", ":", " ">>,
     <<"[", "10", ":", "00", "]", " ", ":", " ">>,
     <<"[", "10", "]", " ", "Bob", ":", " ", "x", ":">>,
     PrefixNoBracket,
     <<"[", "10", ":", "00", "]", " ", "Bob", ":", " ", "x">>}

\* The attachment sub-nodes: the icon that flags the row, the download
\* affordance with its name span, and the three title hints.
NoAttachment ==
    [icon |-> FALSE, download |-> [present |-> FALSE, name_span |-> NoNode],
     type_span |-> NoNode,
     size_span |-> NoNode, pages_span |-> NoNode]

MkRow(ms, tp, ss, ts, d, att) ==
    [message_span |-> ms, temp |-> tp, sender_span |-> ss, time_span |-> ts,
     dir |-> d, icon |-> att.icon, download |-> att.download,
     type_span |-> att.type_span, size_span |-> att.size_span,
     pages_span |-> att.pages_span]

\* dir: which of div.message-in / div.message-out the row contains.
BasicRows ==
    {MkRow(ms, tp, ss, ts, d, NoAttachment) :
        ms \in {NoNode, Node(Hello), Node(<<" ", "hi", " ", "there", "\n">>)},
        tp \in {NoTemp, TempNoAttr} \cup {Temp(a) : a \in PrefixSamples},
        ss \in {NoNode, Node(<<"Ann">>), Node(<<" ", "Ann", " ">>), Node(Unknown)},
        ts \in {NoNode, Node(<<"09", ":", "30">>)},
        d \in {"in", "out", "none"}}

-----------------------------------------------------------------------------
(* extract_basic_info                                                      *)

DefaultObj == [message |-> Unknown, time |-> Unknown, sender |-> Unknown]

Returned(o) == [raised |-> FALSE, obj |-> o]
\* re.match(pattern, None) raises TypeError; the function has no handler.
Raised == [raised |-> TRUE, obj |-> DefaultObj]

\* obj["message"]: the stripped text of span.selectable-text.copyable-text.
BasicMessage(r) ==
    IF r.message_span.present THEN Strip(r.message_span.text) ELSE Unknown

\* The direction override and the placeholder.
SenderOverride(r, s) ==
    IF r.dir = "out" THEN You
    ELSE IF s = Unknown THEN Sender
    ELSE s

\* A faulty extract_basic_info: the styled sender and time nodes are also
\* read when the structured node is present and its prefix does not match.
extract_basic_info_fallback(r) ==
    IF r.temp.present /\ ~r.temp.hasAttr THEN Raised
    ELSE LET m == IF r.temp.present THEN PrefixMatch(r.temp.attr)
                  ELSE [matched |-> FALSE, g1 |-> <<>>, g2 |-> <<>>]
             s == IF m.matched THEN Strip(m.g2)
                  ELSE IF r.sender_span.present THEN Strip(r.sender_span.text)
                  ELSE Unknown
             t == IF m.matched THEN Strip(m.g1)
                  ELSE IF r.time_span.present THEN Strip(r.time_span.text)
                  ELSE Unknown
         IN  Returned([message |-> BasicMessage(r), time |-> t,
                       sender |-> SenderOverride(r, s)])

extract_basic_info(r) ==
    IF r.temp.present
    THEN IF ~r.temp.hasAttr THEN Raised
         ELSE LET m == PrefixMatch(r.temp.attr)
                  t == IF m.matched THEN Strip(m.g1) ELSE Unknown
                  s == IF m.matched THEN Strip(m.g2) ELSE Unknown
              IN  Returned([message |-> BasicMessage(r), time |-> t,
                            sender |-> SenderOverride(r, s)])
    ELSE LET s == IF r.sender_span.present THEN Strip(r.sender_span.text) ELSE Unknown
             t == IF r.time_span.present THEN Strip(r.time_span.text) ELSE Unknown
         IN  Returned([message |-> BasicMessage(r), time |-> t,
                       sender |-> SenderOverride(r, s)])

-----------------------------------------------------------------------------
(* extract_attachment_info                                                 *)

\* obj["attachment"] of a row without the attachment icon: the string "".
NoAttachmentValue ==
    [kind |-> "str", filled |-> FALSE, name |-> NoNode, type |-> NoNode,
     size |-> NoNode, otherdetails |-> NoNode]

\* The dictionary: empty when the download affordance is absent, else the
\* four keys, each None (a NoNode) when its sub-element is absent.
extract_attachment_info(r) ==
    IF r.download.present
    THEN [kind |-> "dict", filled |-> TRUE, name |-> r.download.name_span,
          type |-> r.type_span, size |-> r.size_span,
          otherdetails |-> r.pages_span]
    ELSE [kind |-> "dict", filled |-> FALSE, name |-> NoNode, type |-> NoNode,
          size |-> NoNode, otherdetails |-> NoNode]

-----------------------------------------------------------------------------
(* The page, as far as the client's inputs change it.                      *)

Alice == <<"Alice">>
BobC == <<"Bob">>
Carol == <<"Carol">>
\* A contact whose display name is an emoji: typed into the search box it is
\* a character, the panel header renders it as an image without text.
Emoji == <<"emoji">>
Contacts == {Alice, BobC, Emoji}
NoPanel == <<>>

BlankPage ==
    [chats |-> [c \in Contacts |-> <<>>], open |-> NoPanel, focus |-> "none",
     search |-> <<>>, compose |-> <<>>]

PrefixMe == <<"[", "10", ":", "00", "]", " ", "Me", ":", " ">>

IsPrefix(q, t) == Len(q) <= Len(t) /\ SubSeq(t, 1, Len(q)) = q

\* The conversations the search box offers for the typed query.
SearchResults(pg) ==
    IF pg.search = <<>> THEN {} ELSE {c \in Contacts : IsPrefix(pg.search, c)}

\* search_box.click()
PageClickSearch(pg) == [pg EXCEPT !.focus = "search"]

\* keyboard.press("Control+A"), keyboard.press("Backspace")
PageClearText(pg) ==
    IF pg.focus = "search" THEN [pg EXCEPT !.search = <<>>]
    ELSE IF pg.focus = "compose" THEN [pg EXCEPT !.compose = <<>>]
    ELSE pg

\* keyboard.type(text) into the focused field
PageType(pg, t) ==
    IF pg.focus = "search" THEN [pg EXCEPT !.search = pg.search \o t]
    ELSE IF pg.focus = "compose" THEN [pg EXCEPT !.compose = pg.compose \o t]
    ELSE pg

\* The row the page renders for a message the user sent.
SentRow(t) == MkRow(Node(t), Temp(PrefixMe), NoNode, NoNode, "out", NoAttachment)

\* press("Enter"): in the search box it opens conversation c, one of the
\* results (none: nothing happens); in the compose box it sends the text.
PageEnter(pg, c) ==
    IF pg.focus = "search"
    THEN IF c \in SearchResults(pg)
         THEN [pg EXCEPT !.open = c, !.focus = "compose", !.search = <<>>]
         ELSE pg
    ELSE IF pg.focus = "compose" /\ pg.open # NoPanel /\ pg.compose # <<>>
    THEN [pg EXCEPT !.chats[pg.open] = Append(@, SentRow(pg.compose)),
                    !.compose = <<>>]
    ELSE pg

\* The choices the page has when Enter is pressed.
EnterChoices(pg) ==
    IF pg.focus = "search" /\ SearchResults(pg) # {} THEN SearchResults(pg)
    ELSE {NoPanel}

-----------------------------------------------------------------------------
(* open_chat_panel                                                         *)

\* click, clear_text, type(username), press("Enter")
OpenChatPanelInput(pg, username, c) ==
    LET p1 == PageType(PageClearText(PageClickSearch(pg)), username)
    IN  PageEnter(p1, c)

OpenChatPanelChoices(pg, username) ==
    EnterChoices(PageType(PageClearText(PageClickSearch(pg)), username))

\* The header read: with no panel open the locator's inner_text() times out
\* with playwright's TimeoutError, which the handler for the builtin
\* TimeoutError does not catch; else the inner text of the header name is
\* returned, or False when it is the empty string.
OpenChatPanelReturn(pg) ==
    IF pg.open = NoPanel THEN [raised |-> TRUE, val |-> <<>>, ok |-> FALSE]
    ELSE LET chat_name == IF pg.open = Emoji THEN <<>> ELSE pg.open
         IN  [raised |-> FALSE, val |-> chat_name, ok |-> chat_name # <<>>]

-----------------------------------------------------------------------------
(* Specification SpecRow: one call of extract_basic_info on any sample row *)

Idle == <<children, all_chats, log, op, page, rows, task, finished, messages, locals, raisedRows>>

InitRow ==
    /\ row \in BasicRows
    /\ ret = Returned(DefaultObj)
    /\ pc = "call"
    /\ op = [kind |-> "extract_basic_info"]
    /\ page = BlankPage
    /\ rows = <<>> /\ task = <<>> /\ finished = <<>> /\ messages = <<>>
    /\ locals = <<>> /\ raisedRows = {} /\ log = <<>>
    /\ children = <<>> /\ all_chats = <<>>

ExtractBasicInfo ==
    /\ pc = "call"
    /\ ret' = extract_basic_info(row)
    /\ pc' = "done"
    /\ UNCHANGED <<row, Idle>>

NextRow == ExtractBasicInfo

SpecRow == InitRow /\ [][NextRow]_vars

-----------------------------------------------------------------------------
(* Claims about extract_basic_info, checked under SpecRow.                 *)

\* The row yields no sender from the structured prefix node nor from the
\* styled sender node.
NoSenderClue(r) ==
    IF r.temp.present
    THEN ~r.temp.hasAttr \/ ~PrefixMatch(r.temp.attr).matched
    ELSE ~r.sender_span.present

\* C1: for every row that contains the outgoing-message marker,
\* extract_basic_info returns a record whose sender is "You", whatever the
\* prefix node or the styled sender node carries.
C1_OutgoingSenderIsYou ==
    (pc = "done" /\ row.dir = "out") =>
        (~ret.raised /\ ret.obj.sender = You)

\* C2: for every row without the outgoing marker that yields no sender from
\* either node, extract_basic_info returns sender "Sender"; and no returned
\* record has the sender "unknown".
C2_PlaceholderSender ==
    /\ (pc = "done" /\ row.dir # "out" /\ NoSenderClue(row)) =>
            (~ret.raised /\ ret.obj.sender = Sender)
    /\ (pc = "done" /\ ~ret.raised) => ret.obj.sender # Unknown

\* C3: extract_basic_info returns a record for every row shape and never
\* raises.
C3_NeverRaises == pc = "done" => ~ret.raised

\* C26: for a row without a message-text node, the body of the record
\* extract_basic_info returns is empty.
C26_NoTextNodeEmptyBody ==
    (pc = "done" /\ ~ret.raised /\ ~row.message_span.present) =>
        ret.obj.message = <<>>

\* The row without its styled sender and time nodes.
WithoutStyledNodes(r) == [r EXCEPT !.sender_span = NoNode, !.time_span = NoNode]

\* C27: the structured prefix node has priority.  When it is present and
\* its prefix matches, time and sender are the two captured groups (the
\* sender before the direction and placeholder rule); when it is present
\* the styled sender and time nodes are not read (the record is the one of
\* the row without them); when it is absent they are read.
C27_StructuredNodePriority ==
    (pc = "done" /\ ~ret.raised) =>
        /\ (row.temp.present /\ PrefixMatch(row.temp.attr).matched) =>
              /\ ret.obj.time = Strip(PrefixMatch(row.temp.attr).g1)
              /\ ret.obj.sender =
                    SenderOverride(row, Strip(PrefixMatch(row.temp.attr).g2))
        /\ row.temp.present => ret = extract_basic_info(WithoutStyledNodes(row))
        /\ (~row.temp.present /\ row.time_span.present) =>
              ret.obj.time = Strip(row.time_span.text)
        /\ (~row.temp.present /\ row.sender_span.present) =>
              ret.obj.sender = SenderOverride(row, Strip(row.sender_span.text))

\* A row that carries both the structured node and the styled nodes.
C27_Witness ==
    /\ pc = "done" /\ ~ret.raised /\ row.dir = "in"
    /\ row.temp = Temp(PrefixBob)
    /\ row.sender_span = Node(<<"Ann">>) /\ row.time_span.present
    /\ ret.obj.sender = Bob /\ ret.obj.time = <<"10", ":", "00">>

-----------------------------------------------------------------------------
(* History extraction: extract_messages_from_chat (x_whatsapp, and         *)
(* getChatHistoryByName of src/src/__init__.py, the same code),            *)
(* getChatHistoryByName of newFile.py, and parse_whatsapp_messages.        *)
(* Every element of a result list carries "src", the index of the row it   *)
(* was read from: rows are distinct objects even when their text is equal. *)

MaxRows == 3
MaxN == 4

RowIn == MkRow(Node(Hello), Temp(PrefixBob), NoNode, NoNode, "in", NoAttachment)
RowOut == SentRow(<<"hi", " ", "there">>)
RowBad == MkRow(Node(Hello), TempNoAttr, NoNode, NoNode, "in", NoAttachment)
RowNoMatch == MkRow(NoNode, Temp(PrefixNoBracket), NoNode, NoNode, "in", NoAttachment)
RowDoc ==
    MkRow(NoNode, NoTemp, Node(<<"Ann">>), Node(<<"09", ":", "30">>), "in",
          [icon |-> TRUE,
           download |-> [present |-> TRUE, name_span |-> Node(<<"a.pdf">>)],
           type_span |-> Node(<<"PDF">>), size_span |-> NoNode,
           pages_span |-> Node(<<"2", " ", "pages">>)])

\* The last sample is flagged by the attachment icon and names its type,
\* but has no download affordance.
HistoryRows ==
    {RowIn, RowOut, RowBad, RowNoMatch, RowDoc,
     MkRow(NoNode, NoTemp, Node(<<"Ann">>), Node(<<"09", ":", "30">>), "in",
           [icon |-> TRUE, download |-> [present |-> FALSE, name_span |-> NoNode],
            type_span |-> Node(<<"PDF">>), size_span |-> NoNode,
            pages_span |-> NoNode])}

RowSeqs(S, k) == UNION {[1..m -> S] : m \in 0..k}

Max(a, b) == IF a >= b THEN a ELSE b

\* A faulty FilterNone: the None of a failed row is let through.
FilterNoneKeepsFailed(res) ==
    [k \in 1..Len(res) |-> [src |-> res[k].src, obj |-> res[k].obj]]

\* filter(None, results): the slots that hold a record, in list order.
RECURSIVE FilterNone(_)
FilterNone(res) ==
    IF res = <<>> THEN <<>>
    ELSE LET rest == FilterNone(Tail(res))
         IN  IF Head(res).none THEN rest
             ELSE <<[src |-> Head(res).src, obj |-> Head(res).obj]>> \o rest

NoneSlot(i) == [none |-> TRUE, src |-> i, obj |-> DefaultObj]
Slot(i, o) == [none |-> FALSE, src |-> i, obj |-> o]

\* The record process_row returns for row r.
WithAttachment(o, a) ==
    [message |-> o.message, time |-> o.time, sender |-> o.sender, attachment |-> a]

\* A faulty LastN: the slice lst[:n].
FirstN(lst, n) == SubSeq(lst, 1, IF n <= Len(lst) THEN n ELSE Len(lst))

\* lst[-n:] for n >= 0 (-0 is 0, so n = 0 selects the whole list).
LastN(lst, n) ==
    IF n = 0 THEN lst ELSE SubSeq(lst, Max(1, Len(lst) - n + 1), Len(lst))

\* A faulty GatherResults: the results in the order the tasks completed.
GatherAsCompleted(tk, fin) == [k \in 1..Len(fin) |-> tk[fin[k]].res]

\* asyncio.gather(*tasks): the results in the order of the tasks.
GatherResults(tk, fin) == [i \in 1..Len(tk) |-> tk[i].res]

InitHistory ==
    /\ op \in {[kind |-> k, name |-> NoPanel, n |-> 0] :
                 k \in {"extract_messages_from_chat", "getChatHistoryByName",
                        "parse_whatsapp_messages"}}
    /\ \E rs \in RowSeqs(HistoryRows, MaxRows) :
         page = [BlankPage EXCEPT
                    !.chats[Alice] = rs,
                    !.open = IF op.kind = "parse_whatsapp_messages"
                             THEN Alice ELSE NoPanel]
    /\ pc = "call"
    /\ row = RowIn
    /\ ret = [raised |-> FALSE, val |-> <<>>]
    /\ rows = <<>> /\ task = <<>> /\ finished = <<>> /\ messages = <<>>
    /\ locals = <<>> /\ raisedRows = {} /\ log = <<>>
    /\ children = <<>> /\ all_chats = <<>>

\* extract_messages_from_chat: open_chat_panel(name); its result is not used,
\* an exception it lets through ends the call.
HistoryOpen ==
    /\ pc = "call" /\ op.kind = "extract_messages_from_chat"
    /\ \E name \in {Alice, Carol} :
         \E c \in OpenChatPanelChoices(page, name) :
            /\ page' = OpenChatPanelInput(page, name, c)
            /\ op' = [op EXCEPT !.name = name]
    /\ IF OpenChatPanelReturn(page').raised
       THEN pc' = "raised" /\ ret' = [raised |-> TRUE, val |-> <<>>]
       ELSE pc' = "extract_messages" /\ UNCHANGED ret
    /\ UNCHANGED <<children, all_chats, log, row, rows, task, finished, messages, locals, raisedRows>>

\* extract_messages: wait for #main, query the rows, create one task a row.
ExtractMessagesStart ==
    /\ pc = "extract_messages"
    /\ IF page.open = NoPanel
       THEN /\ pc' = "raised" /\ ret' = [raised |-> TRUE, val |-> <<>>]
            /\ UNCHANGED <<rows, task>>
       ELSE /\ rows' = page.chats[page.open]
            /\ task' = [i \in 1..Len(rows') |-> [pc |-> "start", res |-> NoneSlot(i)]]
            /\ pc' = "tasks"
            /\ UNCHANGED ret
    /\ UNCHANGED <<children, all_chats, log, row, op, page, finished, messages, locals, raisedRows>>

\* process_row, first part: extract_basic_info and the icon query, gathered.
\* An exception ends the task with None.
ProcessRowBasic(i) ==
    /\ pc = "tasks" /\ task[i].pc = "start"
    /\ LET b == extract_basic_info(rows[i])
       IN  IF b.raised
           THEN /\ task' = [task EXCEPT ![i] = [pc |-> "done", res |-> NoneSlot(i)]]
                /\ raisedRows' = raisedRows \cup {i}
                /\ finished' = Append(finished, i)
           ELSE IF rows[i].icon
           THEN /\ task' = [task EXCEPT ![i] =
                      [pc |-> "attach", res |-> Slot(i, WithAttachment(b.obj, NoAttachmentValue))]]
                /\ UNCHANGED <<raisedRows, finished>>
           ELSE /\ task' = [task EXCEPT ![i] =
                      [pc |-> "done", res |-> Slot(i, WithAttachment(b.obj, NoAttachmentValue))]]
                /\ finished' = Append(finished, i)
                /\ UNCHANGED raisedRows
    /\ UNCHANGED <<children, all_chats, log, row, ret, pc, op, page, rows, messages, locals>>

\* process_row, second part: extract_attachment_info for a flagged row.
ProcessRowAttachment(i) ==
    /\ pc = "tasks" /\ task[i].pc = "attach"
    /\ task' = [task EXCEPT ![i] =
          [pc |-> "done",
           res |-> Slot(i, WithAttachment(task[i].res.obj, extract_attachment_info(rows[i])))]]
    /\ finished' = Append(finished, i)
    /\ UNCHANGED <<children, all_chats, log, row, ret, pc, op, page, rows, messages, locals, raisedRows>>

\* results = await asyncio.gather(*tasks); messages.extend(filter(None, results))
ExtractMessagesGather ==
    /\ pc = "tasks"
    /\ \A i \in 1..Len(task) : task[i].pc = "done"
    /\ messages' = FilterNone(GatherResults(task, finished))
    /\ pc' = "slice"
    /\ UNCHANGED <<children, all_chats, log, row, ret, op, page, rows, task, finished, locals, raisedRows>>

\* return (await self.extract_messages())[-n:]
HistorySlice ==
    /\ pc = "slice"
    /\ \E n \in 0..MaxN :
         /\ op' = [op EXCEPT !.n = n]
         /\ ret' = [raised |-> FALSE, val |-> LastN(messages, n)]
    /\ pc' = "done"
    /\ UNCHANGED <<children, all_chats, log, row, page, rows, task, finished, messages, locals, raisedRows>>

-----------------------------------------------------------------------------
(* newFile.py: getChatHistoryByName = openChatPanelUsingName; getChatHistory *)

\* The matches (a, i, j) of  \[(.*?)\] (.*?):   (a space ends the pattern)
\* anywhere in s: s[a] = "[", s[i] = "]", s[i+1] = " ", s[j] = ":",
\* s[j+1] = " ".
SearchSplits(s) ==
    {p \in (1..Len(s)) \X (1..Len(s)) \X (1..Len(s)) :
        /\ s[p[1]] = "["
        /\ p[2] > p[1] /\ s[p[2]] = "]"
        /\ p[2] + 1 <= Len(s) /\ s[p[2] + 1] = " "
        /\ p[3] >= p[2] + 2 /\ s[p[3]] = ":"
        /\ p[3] + 1 <= Len(s) /\ s[p[3] + 1] = " "
        /\ AllDot(s, p[1] + 1, p[2] - 1)
        /\ AllDot(s, p[2] + 2, p[3] - 1)}

\* re.search: the leftmost start, then the shortest groups.
PrefixSearch(s) ==
    LET ps == SearchSplits(s)
    IN  IF ps = {} THEN [matched |-> FALSE, g1 |-> <<>>, g2 |-> <<>>]
        ELSE LET p == CHOOSE q \in ps : \A r \in ps :
                        \/ q[1] < r[1]
                        \/ (q[1] = r[1] /\ q[2] < r[2])
                        \/ (q[1] = r[1] /\ q[2] = r[2] /\ q[3] <= r[3])
             IN  [matched |-> TRUE,
                  g1 |-> SubSeq(s, p[1] + 1, p[2] - 1),
                  g2 |-> SubSeq(s, p[2] + 2, p[3] - 1)]

\* One row of getChatHistory: a record when the first .copyable-text node
\* (the prefix node) carries a non-empty prefix that the pattern finds and
\* a message span lies under it; else the row is skipped.
ChatRecord(r) ==
    IF r.temp.present /\ r.temp.hasAttr /\ r.temp.attr # <<>>
       /\ r.message_span.present /\ PrefixSearch(r.temp.attr).matched
    THEN [none |-> FALSE,
          obj |-> [name |-> PrefixSearch(r.temp.attr).g2,
                   time |-> PrefixSearch(r.temp.attr).g1,
                   message |-> r.message_span.text]]
    ELSE [none |-> TRUE,
          obj |-> [name |-> <<>>, time |-> <<>>, message |-> <<>>]]

\* chats.reverse(); chats = chats[:n]: the indices of the rows visited, in
\* the order the loop visits them.
ReversedFirstN(len, n) == [k \in 1..(IF n <= len THEN n ELSE len) |-> len + 1 - k]

RECURSIVE FormatChats(_, _)
FormatChats(rs, order) ==
    IF order = <<>> THEN <<>>
    ELSE LET c == ChatRecord(rs[Head(order)])
             rest == FormatChats(rs, Tail(order))
         IN  IF c.none THEN rest
             ELSE <<[src |-> Head(order), obj |-> c.obj]>> \o rest

\* getChatHistory(n) over the rows rs of the panel (rs is not empty).
getChatHistory(rs, n) ==
    IF Len(rs) >= n THEN FormatChats(rs, ReversedFirstN(Len(rs), n)) ELSE <<>>

\* openChatPanelUsingName(name) of newFile.py: the same inputs, no header read.
NewFileOpen ==
    /\ pc = "call" /\ op.kind = "getChatHistoryByName"
    /\ \E name \in {Alice, Carol} :
         \E c \in OpenChatPanelChoices(page, name) :
            /\ page' = OpenChatPanelInput(page, name, c)
            /\ op' = [op EXCEPT !.name = name]
    /\ pc' = "getChatHistory"
    /\ UNCHANGED <<children, all_chats, log, row, ret, rows, task, finished, messages, locals, raisedRows>>

\* getChatHistory(n): waits for the panel (a timeout raises), raises Error
\* on a panel without rows, else formats the rows.
NewFileGetChatHistory ==
    /\ pc = "getChatHistory"
    /\ \E n \in 0..MaxN :
         /\ op' = [op EXCEPT !.n = n]
         /\ IF page.open = NoPanel \/ page.chats[page.open] = <<>>
            THEN /\ pc' = "raised" /\ ret' = [raised |-> TRUE, val |-> <<>>]
                 /\ UNCHANGED rows
            ELSE /\ rows' = page.chats[page.open]
                 /\ ret' = [raised |-> FALSE, val |-> getChatHistory(rows', n)]
                 /\ pc' = "done"
    /\ UNCHANGED <<children, all_chats, log, row, page, task, finished, messages, locals, raisedRows>>

-----------------------------------------------------------------------------
(* newFile.py: parse_whatsapp_messages                                     *)

Unbound == [bound |-> FALSE, val |-> <<>>]
Bound(v) == [bound |-> TRUE, val |-> v]

\* wait_for_selector("#main"), query the rows; time_sent and message_text
\* are not assigned before the loop.
ParseStart ==
    /\ pc = "call" /\ op.kind = "parse_whatsapp_messages"
    /\ IF page.open = NoPanel
       THEN /\ pc' = "raised" /\ ret' = [raised |-> TRUE, val |-> <<>>]
            /\ UNCHANGED <<rows, locals>>
       ELSE /\ rows' = page.chats[page.open]
            /\ locals' = [idx |-> 1, time_sent |-> Unbound, message_text |-> Unbound]
            /\ pc' = "loop"
            /\ UNCHANGED ret
    /\ UNCHANGED <<children, all_chats, log, row, op, page, task, finished, messages, raisedRows>>

\* The assertions of the loop body: a message container, the prefix node and
\* its attribute.
ParseAsserts(r) == r.dir \in {"in", "out"} /\ r.temp.present /\ r.temp.hasAttr

\* time_sent and message_text after the body ran to the dictionary literal.
ParseTimeSent(r, old) ==
    IF PrefixMatch(r.temp.attr).matched
    THEN Bound(Strip(PrefixMatch(r.temp.attr).g1)) ELSE old

ParseMessageText(r, old) ==
    IF r.message_span.present THEN Bound(Strip(r.message_span.text)) ELSE old

ParseSender(r) ==
    IF r.dir = "out" THEN You
    ELSE IF PrefixMatch(r.temp.attr).matched THEN Strip(PrefixMatch(r.temp.attr).g2)
    ELSE Sender

\* What the except branch of the loop does with the list.
ParseOnError(ms) == ms

\* One iteration of the loop; any exception is caught and the loop goes on.
ParseRow ==
    /\ pc = "loop" /\ locals.idx <= Len(rows)
    /\ LET i == locals.idx
           r == rows[i]
       IN  IF ~ParseAsserts(r)
           THEN /\ messages' = ParseOnError(messages)
                /\ raisedRows' = raisedRows \cup {i}
                /\ locals' = [locals EXCEPT !.idx = i + 1]
           ELSE LET ts == ParseTimeSent(r, locals.time_sent)
                    mt == ParseMessageText(r, locals.message_text)
                IN  /\ locals' = [idx |-> i + 1, time_sent |-> ts,
                                  \* an unbound time_sent raises before the
                                  \* row's message text is of any use, but the
                                  \* assignment to message_text has been made
                                  message_text |-> mt]
                    /\ IF ts.bound /\ mt.bound
                       THEN /\ messages' = Append(messages,
                                   [src |-> i,
                                    obj |-> [sender |-> ParseSender(r),
                                             time_sent |-> ts.val,
                                             message |-> mt.val]])
                            /\ UNCHANGED raisedRows
                       ELSE /\ messages' = ParseOnError(messages)
                            /\ raisedRows' = raisedRows \cup {i}
    /\ UNCHANGED <<children, all_chats, log, row, ret, pc, op, page, rows, task, finished>>

ParseReturn ==
    /\ pc = "loop" /\ locals.idx > Len(rows)
    /\ ret' = [raised |-> FALSE, val |-> messages]
    /\ pc' = "done"
    /\ UNCHANGED <<children, all_chats, log, row, op, page, rows, task, finished, messages, locals, raisedRows>>

-----------------------------------------------------------------------------

NextHistory ==
    \/ HistoryOpen
    \/ ExtractMessagesStart
    \/ \E i \in 1..Len(task) : ProcessRowBasic(i)
    \/ \E i \in 1..Len(task) : ProcessRowAttachment(i)
    \/ ExtractMessagesGather
    \/ HistorySlice
    \/ NewFileOpen
    \/ NewFileGetChatHistory
    \/ ParseStart
    \/ ParseRow
    \/ ParseReturn

SpecHistory == InitHistory /\ [][NextHistory]_vars

-----------------------------------------------------------------------------
(* Claims about history extraction, checked under SpecHistory.             *)

Srcs(ms) == [k \in 1..Len(ms) |-> ms[k].src]

Increasing(q) == \A a, b \in 1..Len(q) : a < b => q[a] < q[b]

Range(q) == {q[k] : k \in 1..Len(q)}

Min(a, b) == IF a <= b THEN a ELSE b

\* The row loop of extract_messages or parse_whatsapp_messages has ended.
RowLoopEnded ==
    \/ op.kind = "extract_messages_from_chat" /\ pc \in {"slice", "done"}
    \/ op.kind = "parse_whatsapp_messages" /\ pc = "done"

\* C4: when parsing a row raises, exactly that row is omitted from the
\* result, every other row's record is returned (in row order), and the
\* call does not raise because of the row.
C4_FailedRowsOmitted ==
    /\ RowLoopEnded =>
          /\ Range(Srcs(messages)) = (1..Len(rows)) \ raisedRows
          /\ Increasing(Srcs(messages))
          /\ Len(messages) = Len(rows) - Cardinality(raisedRows)
    /\ raisedRows # {} => pc # "raised"

C4_Witness ==
    /\ op.kind = "extract_messages_from_chat" /\ pc = "slice"
    /\ Len(rows) = 3 /\ raisedRows = {2} /\ Len(messages) = 2

\* The record process_row returns for row i when it runs alone.
ProcessRowAlone(r, i) ==
    LET b == extract_basic_info(r)
    IN  IF b.raised THEN NoneSlot(i)
        ELSE Slot(i, WithAttachment(b.obj,
                 IF r.icon THEN extract_attachment_info(r) ELSE NoAttachmentValue))

RECURSIVE SequentialMessages(_, _)
SequentialMessages(rs, i) ==
    IF i > Len(rs) THEN <<>>
    ELSE LET x == ProcessRowAlone(rs[i], i)
         IN  (IF x.none THEN <<>> ELSE <<[src |-> i, obj |-> x.obj]>>)
             \o SequentialMessages(rs, i + 1)

\* C5: whatever the interleaving and the completion order of the row tasks,
\* extract_messages returns the records of the successfully parsed rows,
\* value for value, in the row order of the panel.
C5_OrderIndependent ==
    (op.kind = "extract_messages_from_chat" /\ pc \in {"slice", "done"}) =>
        messages = SequentialMessages(rows, 1)

C5_Witness ==
    /\ op.kind = "extract_messages_from_chat" /\ pc = "slice"
    /\ finished = <<3, 1, 2>> /\ Len(messages) = 3
    /\ rows[1].icon

MostRecent(ms, n) == SubSeq(ms, Len(ms) - Min(n, Len(ms)) + 1, Len(ms))

HistoryReturned ==
    /\ op.kind \in {"extract_messages_from_chat", "getChatHistoryByName"}
    /\ pc = "done"

\* C6: history extraction with maxMessages = n returns exactly the most
\* recent min(n, k) of the k messages extractable from the open panel, for
\* every n >= 0 (stated for extract_messages_from_chat, where the k
\* extractable messages are the list extract_messages built).
C6_MostRecentN ==
    (HistoryReturned /\ op.kind = "extract_messages_from_chat") =>
        /\ Len(ret.val) = Min(op.n, Len(messages))
        /\ ret.val = MostRecent(messages, op.n)

\* C24: for a row flagged as having an attachment, the attachment record
\* has the four fields name, type, size and otherdetails, each null
\* exactly when its sub-element is absent from the row.
C24_AttachmentFields ==
    \A i \in 1..Len(task) :
        (task[i].pc = "done" /\ ~task[i].res.none /\ rows[i].icon) =>
            LET a == task[i].res.obj.attachment
            IN  /\ a.kind = "dict" /\ a.filled
                /\ a.name.present <=>
                      (rows[i].download.present /\ rows[i].download.name_span.present)
                /\ a.type.present <=> rows[i].type_span.present
                /\ a.size.present <=> rows[i].size_span.present
                /\ a.otherdetails.present <=> rows[i].pages_span.present

\* C29: every record parse_whatsapp_messages emits depends only on its own
\* row: its time_sent is the time of that row's prefix and its message the
\* text of that row's message node.
C29_OwnRowValues ==
    (op.kind = "parse_whatsapp_messages" /\ pc = "done") =>
        \A k \in 1..Len(ret.val) :
            LET r == rows[ret.val[k].src]
            IN  /\ PrefixMatch(r.temp.attr).matched
                /\ ret.val[k].obj.time_sent = Strip(PrefixMatch(r.temp.attr).g1)
                /\ r.message_span.present
                /\ ret.val[k].obj.message = Strip(r.message_span.text)

\* C7: the list history extraction returns is in chronological order (the
\* order of the rows in the panel), in every client variant.
C7_Chronological == HistoryReturned => Increasing(Srcs(ret.val))

-----------------------------------------------------------------------------
(* Specification Spec: a caller that makes up to MaxCalls calls, one after *)
(* the other, of send_message and extract_messages_from_chat on one page.  *)

MaxCalls == 2
MaxAttempts == 3

NoOp == [kind |-> "none", name |-> NoPanel, n |-> 0, text |-> <<>>]
NoneRet == [raised |-> FALSE, kind |-> "None", val |-> <<>>]

Init ==
    /\ \E a \in {<<>>, <<RowIn>>, <<RowDoc, RowBad>>}, o \in {NoPanel, BobC},
          d \in {<<>>, <<"draft">>} :
         page = [chats |-> [c \in Contacts |-> IF c = Alice THEN a ELSE <<RowIn>>],
                 open |-> o, focus |-> "none", search |-> <<>>, compose |-> d]
    /\ pc = "idle"
    /\ op = NoOp
    /\ row = RowIn
    /\ ret = NoneRet
    /\ rows = <<>> /\ task = <<>> /\ finished = <<>> /\ messages = <<>>
    /\ locals = <<>> /\ raisedRows = {} /\ log = <<>>
    /\ children = <<>> /\ all_chats = <<>>

\* The caller starts send_message(name, text).
CallSendMessage ==
    /\ pc = "idle" /\ Len(log) < MaxCalls
    /\ \E name \in {Alice, Carol, Emoji}, text \in {Hello, <<"see", " ", "you">>} :
         op' = [kind |-> "send_message", name |-> name, n |-> 0, text |-> text]
    /\ pc' = "send"
    /\ ret' = NoneRet
    /\ UNCHANGED <<children, all_chats, row, page, rows, task, finished, messages, locals, raisedRows, log>>

\* A faulty SendMessageProceeds: the result of the navigation is not tested.
SendMessageAlways(r) == TRUE

\* if search_input:
SendMessageProceeds(r) == r.ok

\* send_message: search_input = await self.open_chat_panel(name)
SendMessageOpen ==
    /\ pc = "send"
    /\ \E c \in OpenChatPanelChoices(page, op.name) :
         page' = OpenChatPanelInput(page, op.name, c)
    /\ LET r == OpenChatPanelReturn(page')
       IN  IF r.raised
           THEN pc' = "raised" /\ ret' = [raised |-> TRUE, kind |-> "None", val |-> <<>>]
           ELSE IF SendMessageProceeds(r) THEN pc' = "send_type" /\ UNCHANGED ret
           ELSE pc' = "done" /\ ret' = NoneRet
    /\ UNCHANGED <<children, all_chats, log, row, op, rows, task, finished, messages, locals, raisedRows>>

\* send_message, search_input truthy: clear_text, type the message, Enter,
\* wait, Enter; the function ends without a return statement.
SendMessageType ==
    /\ pc = "send_type"
    /\ LET p1 == PageType(PageClearText(page), op.text)
       IN  \E c1 \in EnterChoices(p1) :
             \E c2 \in EnterChoices(PageEnter(p1, c1)) :
                page' = PageEnter(PageEnter(p1, c1), c2)
    /\ ret' = NoneRet
    /\ pc' = "done"
    /\ UNCHANGED <<children, all_chats, log, row, op, rows, task, finished, messages, locals, raisedRows>>

\* The caller starts extract_messages_from_chat(n, name).
CallHistory ==
    /\ pc = "idle" /\ Len(log) < MaxCalls
    /\ op' = [kind |-> "extract_messages_from_chat", name |-> NoPanel, n |-> 0,
              text |-> <<>>]
    /\ pc' = "call"
    /\ ret' = [raised |-> FALSE, val |-> <<>>]
    /\ rows' = <<>> /\ task' = <<>> /\ finished' = <<>> /\ messages' = <<>>
    /\ raisedRows' = {}
    /\ UNCHANGED <<children, all_chats, log, row, page, locals>>

\* The caller starts find_user_phone(mobile), with the number of a contact.
CallFindUserPhone ==
    /\ pc = "idle" /\ Len(log) < MaxCalls
    /\ \E name \in {Alice, BobC} :
         op' = [kind |-> "find_user_phone", name |-> name, n |-> 0, text |-> <<>>]
    /\ locals' = [attempts |-> 0]
    /\ pc' = "goto"
    /\ ret' = NoneRet
    /\ UNCHANGED <<children, all_chats, row, page, rows, task, finished, messages, raisedRows, log>>

\* One attempt: page.goto(link) and wait_for_load_state("networkidle").
\* The page loads (the contact's panel is open) and the function returns;
\* or playwright's TimeoutError is raised, which is not the builtin
\* TimeoutError of the except clause and leaves the function; or the
\* builtin TimeoutError is raised: the handler waits and calls
\* find_user_phone again, with no limit on the depth.
FindUserPhoneAttempt ==
    /\ pc = "goto" /\ locals.attempts < MaxAttempts
    /\ locals' = [attempts |-> locals.attempts + 1]
    /\ \/ /\ page' = [page EXCEPT !.open = op.name, !.focus = "compose"]
          /\ pc' = "done" /\ ret' = NoneRet
       \/ /\ pc' = "raised" /\ ret' = [NoneRet EXCEPT !.raised = TRUE]
          /\ UNCHANGED page
       \/ UNCHANGED <<page, pc, ret>>
    /\ UNCHANGED <<children, all_chats, log, row, op, rows, task, finished, messages, raisedRows>>

\* The call returned or raised: the caller notes the outcome.
Finish ==
    /\ pc \in {"done", "raised"}
    /\ log' = Append(log, [op |-> op, ret |-> ret])
    /\ pc' = "idle"
    /\ UNCHANGED <<children, all_chats, row, ret, op, page, rows, task, finished, messages, locals, raisedRows>>

Next ==
    \/ CallSendMessage
    \/ SendMessageOpen
    \/ SendMessageType
    \/ CallHistory
    \/ HistoryOpen
    \/ ExtractMessagesStart
    \/ \E i \in 1..Len(task) : ProcessRowBasic(i)
    \/ \E i \in 1..Len(task) : ProcessRowAttachment(i)
    \/ ExtractMessagesGather
    \/ HistorySlice
    \/ CallFindUserPhone
    \/ FindUserPhoneAttempt
    \/ Finish

Spec == Init /\ [][Next]_vars

-----------------------------------------------------------------------------
(* Claims about send_message and the end-to-end scenario, under Spec.      *)

\* C8: send_message returns a boolean: true when the contact's panel was
\* opened and the text typed and submitted, false when navigation failed.
C8_ReturnsBoolean ==
    (op.kind = "send_message" /\ pc = "done") =>
        (ret.kind = "bool" /\ (ret.val <=> page.open = op.name))

\* The call before the one under way was send_message(Alice, text) and it
\* returned.
SentToAlice ==
    /\ Len(log) >= 1
    /\ log[Len(log)].op.kind = "send_message"
    /\ log[Len(log)].op.name = Alice
    /\ ~log[Len(log)].ret.raised

\* C9: after send_message("Alice", "hello") completes on a page where Alice
\* exists, the following history extraction for Alice with maxMessages = 1
\* returns exactly one message, with sender "You" and the body sent.
C9_SendThenHistory ==
    (/\ op.kind = "extract_messages_from_chat" /\ pc = "done"
     /\ op.name = Alice /\ op.n = 1 /\ SentToAlice) =>
        /\ Len(ret.val) = 1
        /\ ret.val[1].obj.sender = You
        /\ ret.val[1].obj.message = log[Len(log)].op.text

\* str.upper() of the names the samples use.
Upper(t) ==
    [k \in 1..Len(t) |->
        CASE t[k] = "Alice" -> "ALICE"
          [] t[k] = "Bob" -> "BOB"
          [] t[k] = "Carol" -> "CAROL"
          [] OTHER -> t[k]]

\* C21: when the contact is not found or a page wait times out during
\* navigation, open_chat_panel returns False and no exception reaches the
\* caller: none leaves send_message or extract_messages_from_chat.
C21_NavigationNeverRaises ==
    op.kind \in {"send_message", "extract_messages_from_chat"} => pc # "raised"

\* C22: navigation by submit returns a display name only if the header of
\* the open panel starts with the requested name, compared without case:
\* send_message goes on to type only with such a name in hand.
C22_HeaderMatchesRequest ==
    (op.kind = "send_message" /\ pc = "send_type") =>
        /\ OpenChatPanelReturn(page).ok
        /\ IsPrefix(Upper(op.name), Upper(OpenChatPanelReturn(page).val))

\* C23: find_user_phone retries exactly once on timeout: it makes at most
\* two navigation attempts and then returns (it does not raise).
C23_AtMostTwoAttempts ==
    op.kind = "find_user_phone" => (locals.attempts <= 2 /\ pc # "raised")

\* C28: when the navigation returned False, send_message sends no further
\* input to the page: every step of send_message after the navigation
\* that changes the page is taken with a display name in hand.
C28_NoInputAfterFailedNavigation ==
    [][(op.kind = "send_message" /\ pc # "send" /\ page' # page)
          => OpenChatPanelReturn(page).ok]_vars

\* send_message to the contact whose header has no text returned, and the
\* conversation is as it was.
C28_Witness ==
    /\ op.kind = "send_message" /\ pc = "done" /\ op.name = Emoji
    /\ page.open = Emoji /\ page.chats[Emoji] = <<RowIn>>
    /\ page.compose = <<"draft">>

C9_Witness ==
    /\ op.kind = "extract_messages_from_chat" /\ pc = "done"
    /\ op.name = Alice /\ op.n = 1 /\ SentToAlice
    /\ log[Len(log)].op.text = Hello
    /\ Len(rows) = 2 /\ rows[1] = RowIn
    /\ ret.val = <<[src |-> 2,
                    obj |-> [message |-> Hello, time |-> <<"10", ":", "00">>, sender |-> You,
                             attachment |-> NoAttachmentValue]]>>

-----------------------------------------------------------------------------
(* extract_chat_details_from_side_pane                                     *)
(* A computed transform is a text whose tokens are "matrix(", "matrix3d(", *)
(* ")", the separator ", " and words (numerals, "none", ...).              *)

MaxItems == 3
MaxRuns == 2

Sep == ", "

Matrix(ty) ==
    <<"matrix(", "1", Sep, "0", Sep, "0", Sep, "1", Sep, "0", Sep, ty, ")">>
Matrix3d ==
    <<"matrix3d(", "1", Sep, "0", Sep, "0", Sep, "0", Sep,
      "0", Sep, "1", Sep, "0", Sep, "0", Sep,
      "0", Sep, "0", Sep, "1", Sep, "0", Sep,
      "0", Sep, "72", Sep, "0", Sep, "1", ")">>

Transforms ==
    {Matrix("0"), Matrix("72"), Matrix("144"), Matrix3d, <<"none">>,
     <<"translateY(0px)">>, <<>>}

\* float(x) of a one-word part: the numerals the sample transforms use.
IsNumeral(part) == Len(part) = 1 /\ part[1] \in {"0", "1", "72", "144"}
NumValue(part) ==
    CASE part[1] = "0" -> 0
      [] part[1] = "1" -> 1
      [] part[1] = "72" -> 72
      [] part[1] = "144" -> 144

\* s.replace(tok, ""): the text without the tokens in toks.
RECURSIVE RemoveTokens(_, _)
RemoveTokens(t, toks) ==
    IF t = <<>> THEN <<>>
    ELSE (IF Head(t) \in toks THEN <<>> ELSE <<Head(t)>>) \o RemoveTokens(Tail(t), toks)

\* s.split(", "): the parts between the separators (one more than separators).
RECURSIVE SplitSep(_)
SplitSep(t) ==
    IF \A k \in 1..Len(t) : t[k] # Sep THEN <<t>>
    ELSE LET k == CHOOSE j \in 1..Len(t) : t[j] = Sep /\ \A m \in 1..(j - 1) : t[m] # Sep
         IN  <<SubSeq(t, 1, k - 1)>> \o SplitSep(SubSeq(t, k + 1, Len(t)))

\* "matrix" in translate_y
ContainsMatrix(t) == \E k \in 1..Len(t) : t[k] \in {"matrix(", "matrix3d("}

Num(v) == [kind |-> "num", val |-> v, str |-> <<>>, raised |-> FALSE]
Str(t) == [kind |-> "str", val |-> 0, str |-> t, raised |-> FALSE]
ValueError == [kind |-> "str", val |-> 0, str |-> <<>>, raised |-> TRUE]

\* The value of translate_y after the parsing of lines 598-610: a number, or
\* the transform string itself when no branch assigns; float() of a part
\* that is no number raises ValueError.
TranslateY(t) ==
    IF t = <<>> THEN Str(t)
    ELSE IF ContainsMatrix(t)
    THEN LET parts == SplitSep(RemoveTokens(t, {"matrix(", ")"}))
         IN  IF Len(parts) = 6
             THEN IF IsNumeral(parts[6]) THEN Num(NumValue(parts[6])) ELSE ValueError
             ELSE Str(t)
    ELSE IF \E k \in 1..Len(t) : t[k] = "translateY(0px)" THEN Num(0)
    ELSE Str(t)

\* The sample strings in Python's string order ("" < "matrix3d(..." < "none").
StrRank(t) == IF t = <<>> THEN 0 ELSE IF t = Matrix3d THEN 1 ELSE 2

\* a < b on two keys of one type.
KeyLess(a, b) ==
    IF a.kind = "num" THEN a.val < b.val ELSE StrRank(a.str) < StrRank(b.str)

\* A float and a str in one list: "<" raises TypeError.
MixedKeys(lst) ==
    \E a, b \in 1..Len(lst) : lst[a].translate_y.kind # lst[b].translate_y.kind

\* Insert x after the last element that is not greater than it.
RECURSIVE InsertStable(_, _)
InsertStable(sorted, x) ==
    IF sorted = <<>> THEN <<x>>
    ELSE IF KeyLess(x.translate_y, sorted[Len(sorted)].translate_y)
    THEN Append(InsertStable(SubSeq(sorted, 1, Len(sorted) - 1), x), sorted[Len(sorted)])
    ELSE Append(sorted, x)

RECURSIVE StableSort(_)
StableSort(lst) ==
    IF lst = <<>> THEN <<>>
    ELSE InsertStable(StableSort(SubSeq(lst, 1, Len(lst) - 1)), lst[Len(lst)])

\* A faulty SortByTranslateY: the list is left in insertion order.
SortLeavesOrder(lst) == lst

\* all_chats.sort(key=lambda chat: chat["translate_y"]) on a list of keys of
\* one type (list.sort is stable).
SortByTranslateY(lst) == StableSort(lst)

Item(tr, unread) ==
    [name_span |-> Node(Bob), transform |-> tr, recent |-> Node(Hello), unread |-> unread]

ItemSamples ==
    {Item(tr, NoNode) : tr \in Transforms} \cup {Item(Matrix("72"), Node(<<"3">>))}

\* The dictionary appended for list item c (src: its DOM index).  The time
\* is read with the selector of the name; unread_messages is the text of
\* the label or the string "0", a str in both cases.
ChatSummary(c, i) ==
    [src |-> i,
     name |-> IF c.name_span.present THEN c.name_span.text ELSE <<"Unknown">>,
     recent_message |-> IF c.recent.present THEN c.recent.text
                        ELSE <<"No recent message">>,
     time |-> IF c.name_span.present THEN c.name_span.text
              ELSE <<"No time available">>,
     unread_messages |-> Str(IF c.unread.present THEN c.unread.text ELSE <<"0">>),
     translate_y |-> TranslateY(c.transform)]

InitSide ==
    /\ children \in RowSeqs(ItemSamples, MaxItems)
    /\ op \in {[kind |-> "extract_chat_details_from_side_pane", chat_list |-> b] :
                 b \in BOOLEAN}
    /\ (~op.chat_list => children = <<>>)
    /\ all_chats = <<>>
    /\ pc = "call"
    /\ page = BlankPage
    /\ row = RowIn
    /\ ret = [raised |-> FALSE, val |-> <<>>]
    /\ rows = <<>> /\ task = <<>> /\ finished = <<>> /\ messages = <<>>
    /\ locals = <<>> /\ raisedRows = {} /\ log = <<>>

\* An entry of the log: a run, a callback call, a sleep or a stop request.
Event(e, v) == [ev |-> e, val |-> v]

SideFrame == <<row, op, page, rows, task, finished, messages, raisedRows, children>>

\* A faulty SideStart: the list of an earlier run is kept (all_chats is not
\* set to a new list at the start of the run).
SideStartKeepsList ==
    /\ pc = "call"
    /\ op.kind \in {"extract_chat_details_from_side_pane", "on_new_message"}
    /\ IF op.chat_list
       THEN pc' = "loop" /\ locals' = [idx |-> 1] /\ UNCHANGED ret
       ELSE pc' = "raised" /\ ret' = [raised |-> TRUE, val |-> <<>>]
            /\ UNCHANGED locals
    /\ UNCHANGED <<SideFrame, log, all_chats>>

\* The chat list is queried; the assertion on it is outside the try block,
\* so its AssertionError leaves the function (and a caller that does not
\* catch it).  all_chats = [] starts the list of this run.
SideStart ==
    /\ pc = "call"
    /\ op.kind \in {"extract_chat_details_from_side_pane", "on_new_message"}
    /\ IF op.chat_list
       THEN pc' = "loop" /\ locals' = [idx |-> 1] /\ all_chats' = <<>>
            /\ UNCHANGED ret
       ELSE pc' = "raised" /\ ret' = [raised |-> TRUE, val |-> <<>>]
            /\ UNCHANGED <<locals, all_chats>>
    /\ UNCHANGED <<SideFrame, log>>

\* One iteration of the loop: read the item, append its summary, sort.  An
\* exception (float() or the comparison of a str with a float) leaves the
\* loop through the except branch, with the list as it is.
SideChild ==
    /\ pc = "loop" /\ locals.idx <= Len(children)
    /\ LET c == ChatSummary(children[locals.idx], locals.idx)
       IN  IF c.translate_y.raised
           THEN pc' = "return" /\ UNCHANGED <<all_chats, locals>>
           ELSE IF MixedKeys(Append(all_chats, c))
           THEN /\ all_chats' = Append(all_chats, c)
                /\ pc' = "return" /\ UNCHANGED locals
           ELSE /\ all_chats' = SortByTranslateY(Append(all_chats, c))
                /\ locals' = [idx |-> locals.idx + 1]
                /\ pc' = IF locals.idx = Len(children) THEN "return" ELSE "loop"
    /\ UNCHANGED <<SideFrame, log, ret>>

\* return all_chats: to the caller of the function, or to
\* fetch_latest_message when the poller runs it.  The log records the run
\* and the list it returned.
SideReturn ==
    /\ \/ pc = "return"
       \/ pc = "loop" /\ locals.idx > Len(children)
    /\ ret' = [raised |-> FALSE, val |-> all_chats]
    /\ log' = Append(log, Event("sync", all_chats))
    /\ pc' = IF op.kind = "on_new_message" THEN "fetched" ELSE "done"
    /\ UNCHANGED <<SideFrame, all_chats, locals>>

\* The caller runs the function again, against the same DOM.
SideAgain ==
    /\ pc = "done" /\ op.kind = "extract_chat_details_from_side_pane"
    /\ Len(log) < MaxRuns
    /\ pc' = "call"
    /\ UNCHANGED <<SideFrame, log, ret, all_chats, locals>>

NextSide == SideStart \/ SideChild \/ SideReturn \/ SideAgain

SpecSide == InitSide /\ [][NextSide]_vars

-----------------------------------------------------------------------------
(* on_new_message: the poller.  Each tick runs fetch_latest_message, which *)
(* runs extract_chat_details_from_side_pane (SideStart, SideChild,         *)
(* SideReturn) and takes the first summary.  The log records what the      *)
(* caller can observe: every synchronizer run ("sync"), every call of the  *)
(* callback ("handler"), every asyncio.sleep ("sleep"), and the moment the *)
(* caller asks the poller to stop ("stop").                                *)

MaxTicks == 3

\* The chat lists the poller meets: empty, one conversation on top with or
\* without an unread badge, and the same below a list item that comes
\* first in the DOM.
PollDoms ==
    {<<>>,
     <<Item(Matrix("0"), NoNode)>>,
     <<Item(Matrix("0"), Node(<<"3">>))>>,
     <<Item(Matrix("72"), NoNode), Item(Matrix("0"), NoNode)>>,
     <<Item(Matrix("72"), NoNode), Item(Matrix("0"), Node(<<"3">>))>>}

\* The dictionary of a summary (without the DOM index the model tags it
\* with): what "new_message not in messages" compares.
SummaryValue(c) ==
    [name |-> c.name, recent_message |-> c.recent_message, time |-> c.time,
     unread_messages |-> c.unread_messages, translate_y |-> c.translate_y]

Ticks == Cardinality({k \in 1..Len(log) : log[k].ev = "sync"})

\* A faulty Seen: the comparison is with the last reported summary only.
SeenLast(msgs, m) == msgs # <<>> /\ msgs[Len(msgs)] = m

\* new_message in messages
Seen(msgs, m) == \E k \in 1..Len(msgs) : msgs[k] = m

InitPoll ==
    /\ op \in {[kind |-> "on_new_message", chat_list |-> b] : b \in BOOLEAN}
    /\ children \in PollDoms
    /\ (~op.chat_list => children = <<>>)
    /\ messages = <<>>
    /\ log = <<>>
    /\ pc = "tick"
    /\ all_chats = <<>>
    /\ page = BlankPage
    /\ row = RowIn
    /\ ret = [raised |-> FALSE, val |-> <<>>]
    /\ rows = <<>> /\ task = <<>> /\ finished = <<>>
    /\ locals = <<>> /\ raisedRows = {}

PollFrame == <<row, op, page, rows, task, finished, raisedRows, all_chats, locals>>

\* while True: new_message = await self.fetch_latest_message().  The page
\* shows some chat list when the tick reads it.
PollFetch ==
    /\ pc = "tick" /\ op.kind = "on_new_message"
    /\ Ticks < MaxTicks
    /\ \E d \in PollDoms :
          /\ op.chat_list \/ d = <<>>
          /\ children' = d
    /\ pc' = "call"
    /\ UNCHANGED <<PollFrame, ret, messages, log>>

\* The rest of the tick: latest_message[0] (IndexError on an empty list),
\* the membership test, the callback (which returns or raises) and the
\* sleep; "continue" goes to the next tick without the sleep.  Nothing in
\* on_new_message catches an exception.
PollCompare ==
    /\ pc = "fetched" /\ op.kind = "on_new_message"
    /\ IF ret.val = <<>>
       THEN /\ pc' = "raised" /\ ret' = [raised |-> TRUE, val |-> <<>>]
            /\ UNCHANGED <<messages, log>>
       ELSE LET new_message == SummaryValue(ret.val[1])
            IN  IF ~Seen(messages, new_message)
                THEN /\ messages' = Append(messages, new_message)
                     /\ \/ /\ log' = log \o <<Event("handler", <<new_message>>),
                                               Event("sleep", <<>>)>>
                           /\ pc' = "tick" /\ UNCHANGED ret
                        \/ /\ log' = Append(log, Event("handler", <<new_message>>))
                           /\ pc' = "raised"
                           /\ ret' = [raised |-> TRUE, val |-> <<>>]
                ELSE pc' = "tick" /\ UNCHANGED <<ret, messages, log>>
    /\ UNCHANGED <<PollFrame, children>>

\* The caller asks the poller to stop.  on_new_message takes no stop
\* argument and reads no flag: the request changes nothing it looks at.
PollStop ==
    /\ op.kind = "on_new_message" /\ pc # "raised"
    /\ \A k \in 1..Len(log) : log[k].ev # "stop"
    /\ log' = Append(log, Event("stop", <<>>))
    /\ UNCHANGED <<PollFrame, children, ret, messages, pc>>

NextPoll == PollFetch \/ SideStart \/ SideChild \/ SideReturn \/ PollCompare \/ PollStop

SpecPoll == InitPoll /\ [][NextPoll]_vars

-----------------------------------------------------------------------------
(* The scroll loaders.  search_pane_scroll_down (both clients) and the     *)
(* chat_pane_scroll_up of src/src sample a metric of the pane after every  *)
(* wheel event and stop when it no longer changes; the chat_pane_scroll_up *)
(* of x_whatsapp scrolls for scroll_duration instead.  The page is the     *)
(* pane (absent, without bounding box, or laid out) and its metric:        *)
(* scrollHeight grows while more chats load, scrollTop falls to 0.  The    *)
(* log records the pointer moves, the wheel events, the samples and the    *)
(* logger's error records.                                                 *)

MaxMetric == 2
MaxDuration == 2

\* The timed loader, as opposed to the three that sample a metric.
Timed(o) == o.kind = "chat_pane_scroll_up" /\ o.client = "x_whatsapp"

\* The metric a wheel event may leave behind: unchanged, or one step on.
AfterWheel(o, m) ==
    {m} \cup (IF o.kind = "search_pane_scroll_down"
              THEN {k \in {m + 1} : k <= MaxMetric}
              ELSE {k \in {m - 1} : k >= 0})

\* A faulty Converged: the comparison of the two samples never succeeds.
NeverConverged(previous, current) == FALSE

\* if current_height == previous_height: break
Converged(previous, current) == current = previous

\* A faulty ScrollExcept: the except branch raises the exception again.
ScrollExceptReraises ==
    [pc |-> "raised", ret |-> [NoneRet EXCEPT !.raised = TRUE],
     log |-> <<Event("logger.exception", <<>>)>>]

\* except Exception as e: self.logger.exception(...), and the function ends.
ScrollExcept ==
    [pc |-> "done", ret |-> NoneRet, log |-> <<Event("logger.exception", <<>>)>>]

InitScroll ==
    /\ op \in {[kind |-> k, client |-> c, scroll_duration |-> d] :
                 k \in {"search_pane_scroll_down", "chat_pane_scroll_up"},
                 c \in {"x_whatsapp", "src"}, d \in 0..MaxDuration}
    /\ (~Timed(op) => op.scroll_duration = 0)
    /\ page \in [pane : {"absent", "nobox", "box"}, metric : 0..MaxMetric]
    /\ log = <<>>
    /\ locals = <<>>
    /\ pc = "call"
    /\ ret = NoneRet
    /\ row = RowIn
    /\ rows = <<>> /\ task = <<>> /\ finished = <<>> /\ messages = <<>>
    /\ raisedRows = {} /\ children = <<>> /\ all_chats = <<>>

ScrollFrame == <<row, op, rows, task, finished, messages, raisedRows, children, all_chats>>

\* Up to the loop: the pane is located and its bounding box read.  The
\* x_whatsapp chat_pane_scroll_up first queries the element and returns
\* when there is none; Locator.bounding_box() on an absent element times
\* out, which the except branch catches, and gives None for an element
\* without layout.  The sampling loaders then take the first sample, which
\* can raise as well.
ScrollLocate ==
    /\ pc = "call"
    /\ \/ /\ page.pane = "absent" /\ Timed(op)
          /\ pc' = "done" /\ ret' = NoneRet
          /\ log' = Append(log, Event("logger.error", <<>>))
          /\ UNCHANGED locals
       \/ /\ page.pane = "absent" /\ ~Timed(op)
          /\ pc' = ScrollExcept.pc /\ ret' = ScrollExcept.ret
          /\ log' = log \o ScrollExcept.log
          /\ UNCHANGED locals
       \/ /\ page.pane = "nobox"
          /\ pc' = "done" /\ ret' = NoneRet
          /\ log' = Append(log, Event("logger.error", <<>>))
          /\ UNCHANGED locals
       \/ /\ page.pane = "box" /\ Timed(op)
          /\ pc' = "loop" /\ locals' = [left |-> op.scroll_duration]
          /\ UNCHANGED <<ret, log>>
       \/ /\ page.pane = "box" /\ ~Timed(op)
          /\ \/ /\ pc' = "loop" /\ locals' = [previous |-> page.metric]
                /\ log' = Append(log, Event("sample", <<page.metric>>))
                /\ UNCHANGED ret
             \/ /\ pc' = ScrollExcept.pc /\ ret' = ScrollExcept.ret
                /\ log' = log \o ScrollExcept.log
                /\ UNCHANGED locals
    /\ UNCHANGED <<ScrollFrame, page>>

\* One iteration of "while True": move, wheel, sleep, sample, compare.  The
\* move can raise (nothing done yet), and so can the sample after the
\* wheel event.
ScrollStep ==
    /\ pc = "loop" /\ ~Timed(op)
    /\ \/ /\ pc' = ScrollExcept.pc /\ ret' = ScrollExcept.ret
          /\ log' = log \o ScrollExcept.log
          /\ UNCHANGED <<page, locals>>
       \/ \E m \in AfterWheel(op, page.metric) :
             /\ page' = [page EXCEPT !.metric = m]
             /\ \/ /\ log' = log \o <<Event("move", <<>>), Event("wheel", <<>>),
                                       Event("sample", <<m>>)>>
                   /\ IF Converged(locals.previous, m)
                      THEN pc' = "done" /\ ret' = NoneRet /\ UNCHANGED locals
                      ELSE locals' = [previous |-> m] /\ UNCHANGED <<pc, ret>>
                \/ /\ log' = log \o <<Event("move", <<>>), Event("wheel", <<>>)>>
                                  \o ScrollExcept.log
                   /\ pc' = ScrollExcept.pc /\ ret' = ScrollExcept.ret
                   /\ UNCHANGED locals
    /\ UNCHANGED ScrollFrame

\* One test of "while time.time() < end_time" and, inside the duration,
\* one iteration: move, wheel, sleep (one unit of the duration).
ScrollTimed ==
    /\ pc = "loop" /\ Timed(op)
    /\ IF locals.left = 0
       THEN pc' = "done" /\ ret' = NoneRet /\ UNCHANGED <<page, locals, log>>
       ELSE \/ /\ pc' = ScrollExcept.pc /\ ret' = ScrollExcept.ret
               /\ log' = log \o ScrollExcept.log
               /\ UNCHANGED <<page, locals>>
            \/ \E m \in AfterWheel(op, page.metric) :
                  /\ page' = [page EXCEPT !.metric = m]
                  /\ log' = log \o <<Event("move", <<>>), Event("wheel", <<>>)>>
                  /\ locals' = [left |-> locals.left - 1]
                  /\ UNCHANGED <<pc, ret>>
    /\ UNCHANGED ScrollFrame

NextScroll == ScrollLocate \/ ScrollStep \/ ScrollTimed

SpecScroll == InitScroll /\ [][NextScroll]_vars

\* The event loop keeps running the coroutine: a loader that can take a
\* step takes it.
SpecScrollFair == SpecScroll /\ WF_vars(NextScroll)

-----------------------------------------------------------------------------
(* Claims about the sidebar synchronizer, checked under SpecSide.          *)

AscendingOffsets(lst) ==
    \A a, b \in 1..Len(lst) :
        (a < b /\ lst[a].translate_y.kind = "num" /\ lst[b].translate_y.kind = "num")
            => lst[a].translate_y.val <= lst[b].translate_y.val

AllNumericTransforms ==
    \A k \in 1..Len(children) :
        ~TranslateY(children[k].transform).raised
        /\ TranslateY(children[k].transform).kind = "num"

\* C10: extract_chat_details_from_side_pane returns the summaries sorted by
\* transform offset ascending, for every DOM order of the list items: the
\* offsets of the returned list ascend, and a list whose items all have an
\* offset is returned whole.
C10_SortedByOffset ==
    (pc = "done" /\ op.kind = "extract_chat_details_from_side_pane") =>
        /\ AscendingOffsets(ret.val)
        /\ AllNumericTransforms =>
              {ret.val[k].src : k \in 1..Len(ret.val)} = 1..Len(children)

\* The integer an unread label stands for: its number when the text is
\* numeric, zero when the label is absent or not numeric.
UnreadCount(c) ==
    IF c.unread.present /\ c.unread.text = <<"3">> THEN 3 ELSE 0

\* C25: in every summary returned the unread count is an integer: the
\* parsed value of the unread label when numeric, and zero when the label
\* is absent or not numeric.
C25_UnreadCountInteger ==
    (pc = "done" /\ op.kind = "extract_chat_details_from_side_pane") =>
        \A k \in 1..Len(ret.val) :
            ret.val[k].unread_messages = Num(UnreadCount(children[ret.val[k].src]))

C10_Witness ==
    /\ pc = "done" /\ op.kind = "extract_chat_details_from_side_pane"
    /\ Len(children) = 3
    /\ children[1].transform = Matrix("144")
    /\ children[2].transform = Matrix("0")
    /\ children[3].transform = Matrix("72")
    /\ ret.val[1].src = 2 /\ ret.val[2].src = 3 /\ ret.val[3].src = 1

SideReturned == pc = "done" /\ op.kind = "extract_chat_details_from_side_pane"

NumericOffset(c) == c.translate_y.kind = "num"

\* C11: a list item whose transform gives no numeric offset does not abort
\* the synchronization: every item is returned, the items without a numeric
\* offset come after every item that has one, and the numeric offsets
\* ascend.
C11_UnorderedItemsLast ==
    SideReturned =>
        /\ Len(ret.val) = Len(children)
        /\ Range(Srcs(ret.val)) = 1..Len(children)
        /\ \A a, b \in 1..Len(ret.val) :
              (a < b /\ NumericOffset(ret.val[b])) => NumericOffset(ret.val[a])
        /\ AscendingOffsets(ret.val)

\* C12: extract_chat_details_from_side_pane returns one summary for every
\* list item of the chat list, whatever the items are: no item is dropped.
C12_NoItemDropped ==
    SideReturned =>
        \A k \in 1..Len(children) :
            Cardinality({a \in 1..Len(ret.val) : ret.val[a].src = k}) = 1

\* C13: two runs of extract_chat_details_from_side_pane against the same
\* DOM return the same sequence of summaries, value for value and in the
\* same order.
C13_SameSequenceTwice ==
    \A a, b \in 1..Len(log) :
        (log[a].ev = "sync" /\ log[b].ev = "sync") => log[a].val = log[b].val

\* Two runs over a list in which two items share the offset 72.
C13_Witness ==
    /\ SideReturned /\ Len(log) = 2 /\ Len(ret.val) = 3
    /\ ret.val[2].translate_y = Num(72) /\ ret.val[3].translate_y = Num(72)
    /\ ret.val[2].src < ret.val[3].src
    /\ ret.val[2].unread_messages # ret.val[3].unread_messages

-----------------------------------------------------------------------------
(* Claims about the poller, checked under SpecPoll.                        *)

SyncIdx == {k \in 1..Len(log) : log[k].ev = "sync"}

\* Runs a and b of the synchronizer are consecutive ticks.
ConsecutiveSyncs(a, b) ==
    /\ a \in SyncIdx /\ b \in SyncIdx /\ a < b
    /\ \A k \in SyncIdx : ~(a < k /\ k < b)

\* The tick of run b is over: the loop is back at its head, or ran again.
TickOver(b) == pc = "tick" \/ \E k \in SyncIdx : k > b

\* The topmost summary of run k.
Top(k) == SummaryValue(log[k].val[1])

\* The callback was called with v in the tick of run b.
HandlerCalledIn(b, v) ==
    \E k \in 1..Len(log) :
        /\ k > b /\ log[k] = Event("handler", <<v>>)
        /\ \A j \in SyncIdx : ~(b < j /\ j < k)

\* C14: on every tick whose topmost summary differs by value from the one
\* of the tick before, the poller records the new summary and calls the
\* handler with it (also when the new top was seen before the last one).
C14_HandlerOnEveryChange ==
    \A a, b \in 1..Len(log) :
        (/\ ConsecutiveSyncs(a, b) /\ TickOver(b)
         /\ log[a].val # <<>> /\ log[b].val # <<>>
         /\ Top(a) # Top(b))
            => /\ \E m \in 1..Len(messages) : messages[m] = Top(b)
               /\ HandlerCalledIn(b, Top(b))

\* C15: the first tick only records the baseline: the handler is not
\* called before the second run of the synchronizer.
C15_BaselineWithoutHandler ==
    \A k \in 1..Len(log) :
        log[k].ev = "handler" => Cardinality({j \in SyncIdx : j < k}) >= 2

\* C16: an exception inside one tick (the synchronizer fails, the list is
\* empty, the handler raises) never ends on_new_message.
C16_TickExceptionsCaught == op.kind = "on_new_message" => pc # "raised"

\* C17: between any two consecutive runs of the synchronizer the loop
\* sleeps the interval, whether the tick detected a change or not.
C17_SleepBetweenRuns ==
    \A a, b \in 1..Len(log) :
        ConsecutiveSyncs(a, b) =>
            \E k \in 1..Len(log) : a < k /\ k < b /\ log[k].ev = "sleep"

\* C18: after the stop signal the loop completes at most the tick in
\* progress: at most one run of the synchronizer follows the signal, and
\* the handler is called for no tick after that one.
C18_StopsAfterSignal ==
    \A s \in 1..Len(log) :
        log[s].ev = "stop" =>
            /\ Cardinality({j \in SyncIdx : j > s}) <= 1
            /\ \A k \in 1..Len(log) :
                  (k > s /\ log[k].ev = "handler")
                      => Cardinality({j \in SyncIdx : s < j /\ j < k}) <= 1

HandlerIdx == {k \in 1..Len(log) : log[k].ev = "handler"}

\* C30: in one run of on_new_message the handler is called at most once for
\* each distinct summary value: the reported summaries are exactly the list
\* messages, which only grows, and a top that is in it calls no handler.
C30_HandlerOncePerValue ==
    /\ [](/\ \A a, b \in HandlerIdx : log[a].val = log[b].val => a = b
          /\ {log[k].val : k \in HandlerIdx} = {<<messages[m]>> : m \in 1..Len(messages)}
          /\ Cardinality(HandlerIdx) = Len(messages))
    /\ [][SubSeq(messages', 1, Len(messages)) = messages]_vars

\* Tops A, B, A: the third tick is over and the handler ran twice.
C30_Witness ==
    /\ pc = "tick" /\ Cardinality(SyncIdx) = 3 /\ Cardinality(HandlerIdx) = 2
    /\ \E a, b, c \in SyncIdx :
          /\ a < b /\ b < c
          /\ Top(a) # Top(b) /\ Top(c) = Top(a)

-----------------------------------------------------------------------------
(* Claims about the scroll loaders.                                        *)

SampleIdx == {k \in 1..Len(log) : log[k].ev = "sample"}

\* Samples a and b are consecutive and equal.
EqualSamples(a, b) ==
    /\ a \in SampleIdx /\ b \in SampleIdx /\ a < b
    /\ \A k \in SampleIdx : ~(a < k /\ k < b)
    /\ log[a].val = log[b].val

NoWheelAfterEqualSamples ==
    \A a, b \in 1..Len(log) :
        EqualSamples(a, b) =>
            /\ pc = "done"
            /\ \A k \in 1..Len(log) : k > b => log[k].ev \notin {"move", "wheel"}

\* C19: a sampling scroll loader issues no wheel event after two
\* consecutive equal samples and has returned by then; and, the metric of
\* the page being bound to stop changing, the loader terminates.
C19_StopsOnConvergence ==
    /\ [](~Timed(op) => NoWheelAfterEqualSamples)
    /\ (~Timed(op) ~> pc = "done")

\* A loader that scrolled twice (the metric changed once) and returned on
\* two equal samples.
C19_Witness ==
    /\ ~Timed(op) /\ pc = "done"
    /\ Cardinality(SampleIdx) = 3
    /\ \E a, b \in 1..Len(log) : EqualSamples(a, b) /\ b = Len(log)

\* C20: a scroll loader whose pane cannot be located (no element, or no
\* bounding box) returns without a pointer move or a wheel event, and no
\* exception raised inside a scroll loader reaches its caller.
C20_NoScrollNoRaise ==
    /\ pc # "raised" /\ ~ret.raised
    /\ (pc = "done" /\ page.pane # "box") =>
          \A k \in 1..Len(log) : log[k].ev \notin {"move", "wheel"}

\* The pane is absent: the locator's timeout was caught and logged.
C20_Witness ==
    /\ pc = "done" /\ page.pane = "absent" /\ ~Timed(op)
    /\ log = <<Event("logger.exception", <<>>)>>

=============================================================================
